---- MODULE Spec2Model ----
(***************************************************************************)
(* Client-side session and basket state of the grocery price-compare       *)
(* frontend: AuthProvider (contexts/AuthContext.js) and CartProvider       *)
(* (contexts/CartContext.js), together with the remote HTTP API they call. *)
(*                                                                         *)
(* A request lives in `net` from the moment axios sends it until its       *)
(* promise settles in the component.  The server applies a request in one  *)
(* step (ServerOk); the continuation after `await` runs in the ...Resolved *)
(* actions, in any order: on the success branch for a request the server   *)
(* has answered, on the catch branch for one that fails before the server  *)
(* applies it (transport failure, or an error response with a detail).     *)
(*                                                                         *)
(* React state (useState) is committed together with the handler that set  *)
(* it; the useEffect callbacks that depend on it run in RunEffects, before *)
(* any further handler of the two providers.                               *)
(*                                                                         *)
(* Spec is the two providers under arbitrary calls of their operations;    *)
(* SpecBasketPage is the basket page's quantity controls on top of them.   *)
(***************************************************************************)
EXTENDS Integers, Sequences, FiniteSets, TLC

\* ---------------------------------------------------------------- bounds
MaxInFlight == 2
MaxQty == 3
MaxCalls == 2

\* ------------------------------------------------------------ value sets
Users == {"u1", "u2"}
Names == {"a", "b"}
Products == {"P1"}
NoToken == "null"
StaleToken == "t0"
Null == <<>>

Some(x) == <<x>>

\* The account a bearer token belongs to ("none": the server rejects it).
UserOfToken(t) == IF t = "t1" THEN "u1" ELSE IF t = "t2" THEN "u2" ELSE "none"

\* access_token issued by the server for an account.
TokenOf(u) == IF u = "u1" THEN "t1" ELSE "t2"

ValidToken(t) == UserOfToken(t) \in Users

\* Quantities are decimals with steps of 0.5 and a minimum of 0.1; they are
\* counted in hundredths: Unit is the quantity 1.
Unit == 100

\* Unit price in pence.
Price(p) == IF p = "P1" THEN 200 ELSE 150

StoreOf(p) == IF p \in {"P1", "P3"} THEN "S1" ELSE "S2"

\* ------------------------------------------------------------ operations
SessionOps == {"me", "login", "register", "updateUser"}
MutatingOps == {"add", "update", "remove", "clear"}
CartOps == MutatingOps \cup {"fetch", "summary"}

VARIABLES
    mounted,       \* the providers are mounted (mount effects have run)
    localStorage,  \* localStorage 'token'
    authHeader,    \* axios.defaults.headers.common['Authorization']
    user,          \* AuthProvider state: Null or Some(profile)
    token,         \* AuthProvider state
    authLoading,   \* AuthProvider state `loading`
    tokenDep,      \* value of [token] the token effect last ran with
    basket,        \* CartProvider state: Null or Some(snapshot)
    cartLoading,   \* CartProvider state `loading`
    cartDep,       \* value of [isAuthenticated] the cart effect last ran with
    net,           \* requests in flight, in the order they were issued
    srvName,       \* server: profile name of every account
    srvBasket,     \* server: basket items of every account
    ev,            \* the step just taken: operation, result, request issued
    session,       \* history: credential of the session in force
    validated,     \* history: the in-memory token was last validated successfully
    loggedOut,     \* history: logout() ran and no login/register succeeded since
    basketOwner,   \* history: account the stored snapshot was returned for
    calls,         \* history: number of operations invoked by the views so far
    view           \* useState values of the page component under study (Null: none)

vars == <<mounted, localStorage, authHeader, user, token, authLoading, tokenDep,
          basket, cartLoading, cartDep, net, srvName, srvBasket, ev,
          session, validated, loggedOut, basketOwner, calls, view>>

authVars == <<localStorage, authHeader, user, token, authLoading>>
cartVars == <<basket, cartLoading, basketOwner>>
srvVars == <<srvName, srvBasket>>
histVars == <<session, validated, loggedOut>>

\* ------------------------------------------------------ derived values
isAuthenticated == user # Null

RECURSIVE SumTotal(_)
SumTotal(items) ==
    IF items = <<>> THEN 0 ELSE Head(items).total_price + SumTotal(Tail(items))

Item(p, q) ==
    [id |-> p, product_name |-> p, store_name |-> StoreOf(p), price |-> Price(p),
     quantity |-> q, total_price |-> (q * Price(p)) \div Unit]

\* The full snapshot the server returns for a basket.  estimated_savings is
\* optional (decimal?): the server gives none for a basket without items.
Snapshot(items) ==
    [items |-> items, total_items |-> Len(items), total_cost |-> SumTotal(items),
     estimated_savings |-> IF items = <<>> THEN Null ELSE Some(10 * Len(items))]

Profile(u) == [id |-> u, full_name |-> srvName[u]]

ItemIds(items) == {items[i].id : i \in 1..Len(items)}

IndexOf(items, id) == CHOOSE i \in 1..Len(items) : items[i].id = id

RemoveAt(s, i) == SubSeq(s, 1, i - 1) \o SubSeq(s, i + 1, Len(s))

\* Values CartProvider derives from the snapshot at every render:
\* basket?.total_items || 0, basket?.total_cost || 0, basket?.estimated_savings || 0.
itemCount ==
    IF basket = Null \/ basket[1].total_items = 0 THEN 0 ELSE basket[1].total_items

\* Variant: totalCost reads the field of itemCount.
totalCostWrongField ==
    IF basket = Null \/ basket[1].total_items = 0 THEN 0 ELSE basket[1].total_items

totalCost ==
    IF basket = Null \/ basket[1].total_cost = 0 THEN 0 ELSE basket[1].total_cost

estimatedSavings ==
    IF \/ basket = Null
       \/ basket[1].estimated_savings = Null
       \/ basket[1].estimated_savings = Some(0)
    THEN 0 ELSE basket[1].estimated_savings[1]

\* ----------------------------------------------------------- requests
Request(op, cred) ==
    [op |-> op, cred |-> cred, account |-> "-", name |-> "-", item |-> "-", qty |-> 0,
     st |-> "sent", tok |-> NoToken, usr |-> Null, bsk |-> Null, detail |-> "null",
     solo |-> TRUE, late |-> 0, old |-> FALSE]

Event(kind, op) ==
    [kind |-> kind, op |-> op, net |-> FALSE, res |-> "none", msg |-> "", st |-> "-",
     cred |-> NoToken, tok |-> NoToken, usr |-> Null, bsk |-> Null,
     item |-> "-", qty |-> 0, solo |-> FALSE, late |-> 0, detail |-> "null",
     old |-> FALSE]

CartInFlight == {i \in 1..Len(net) : net[i].op \in CartOps \ {"summary"}}

MutatingInFlight == {i \in 1..Len(net) : net[i].op \in MutatingOps}

EffectsPending == mounted /\ (tokenDep # token \/ cartDep # isAuthenticated)

CanCall == mounted /\ ~EffectsPending

CanSend == Len(net) < MaxInFlight

\* One more operation is invoked by a view.
Invoke == calls < MaxCalls /\ calls' = calls + 1

\* ---------------------------------------------------------------- Init
Init ==
    /\ mounted = FALSE
    /\ localStorage \in {NoToken, StaleToken, "t1", "t2"}
    /\ authHeader = NoToken
    /\ user = Null
    /\ token = localStorage
    /\ authLoading = TRUE
    /\ tokenDep = NoToken
    /\ basket = Null
    /\ cartLoading = FALSE
    /\ cartDep = FALSE
    /\ net = <<>>
    /\ srvName = [u \in Users |-> "a"]
    /\ srvBasket = [u \in Users |-> IF u = "u1" THEN <<Item("P1", Unit)>> ELSE <<>>]
    /\ ev = Event("init", "-")
    /\ session = "unset"
    /\ validated = FALSE
    /\ loggedOut = FALSE
    /\ basketOwner = "none"
    /\ calls = 0
    /\ view = Null

\* ------------------------------------------------------ shared helpers
Send(r) == net' = Append(net, r)

\* Variant: a request that failed is sent again.
SettleRetried(i) ==
    net' = IF net[i].st = "ok" THEN RemoveAt(net, i) ELSE Append(RemoveAt(net, i), net[i])

\* The request at position i settles: it leaves `net`; an earlier-issued
\* updateBasketItem request for the same item that is still pending is marked
\* as overtaken by the quantity of this one when this one succeeded.
Settle(i) ==
    net' = RemoveAt([j \in 1..Len(net) |->
                IF /\ j < i
                   /\ net[i].st = "ok"
                   /\ net[i].op = "update" /\ net[j].op = "update"
                   /\ net[i].item = net[j].item
                THEN [net[j] EXCEPT !.late = net[i].qty]
                ELSE net[j]], i)

Details == {"null", "detail"}

\* The request at position i can settle: with the server's answer, or, before
\* the server has applied it, with an error carrying detail d ("null": none).
\* checkAuth, fetchBasket and getBasketSummary never read the detail.
Settles(i, d) ==
    /\ net[i].st = "ok" => d = "null"
    /\ net[i].op \in {"me", "fetch", "summary"} => d = "null"

Settled(i, d) ==
    IF net[i].st = "ok" THEN net[i] ELSE [net[i] EXCEPT !.st = "err", !.detail = d]

Fallback(op) ==
    CASE op = "login" -> "Login failed"
      [] op = "register" -> "Registration failed"
      [] op = "updateUser" -> "Update failed"
      [] op = "add" -> "Failed to add to basket"
      [] op = "update" -> "Failed to update item"
      [] op = "remove" -> "Failed to remove item"
      [] op = "clear" -> "Failed to clear basket"
      [] OTHER -> ""

\* Variant: the catch branch ignores the detail of the error response.
ErrorMessageAlwaysFallback(op, detail) == Fallback(op)

\* error.response?.data?.detail || '<fallback>'
ErrorMessage(op, detail) == IF detail # "null" THEN detail ELSE Fallback(op)

Resolved(r, res) ==
    [Event("resolve", r.op) EXCEPT
        !.res = res, !.st = r.st, !.cred = r.cred, !.tok = r.tok, !.usr = r.usr, !.bsk = r.bsk,
        !.item = r.item, !.qty = r.qty, !.solo = r.solo, !.late = r.late, !.detail = r.detail,
        !.old = r.old,
        !.msg = IF res = "failure" THEN ErrorMessage(r.op, r.detail) ELSE ""]

Called(op, sent, res, msg) ==
    [Event("call", op) EXCEPT !.net = sent, !.res = res, !.msg = msg,
                              !.cred = IF sent THEN authHeader ELSE NoToken]

\* ------------------------------------------------- AuthProvider effects
\* useEffect(..., [token]): attach or remove the default Authorization header.
TokenEffectHeader(t, h) == IF t # NoToken THEN t ELSE NoToken

\* Variant: checkAuth reads localStorage again after the await.
SavedTokenReread(r) == localStorage

\* `savedToken` of the checkAuth closure: the token persisted when it started.
SavedToken(r) == r.cred

\* Header left by the catch branch of checkAuth.
CheckAuthFailedHeader(h) == NoToken

\* localStorage left by the catch branch of checkAuth.
CheckAuthFailedStorage(s) == NoToken

\* Mount of AuthProvider and CartProvider: the cart effect (unauthenticated),
\* the token effect, then checkAuth up to its await.
Mount ==
    /\ calls' = calls
    /\ ~mounted
    /\ mounted' = TRUE
    /\ basket' = Null
    /\ basketOwner' = "none"
    /\ cartDep' = FALSE
    /\ tokenDep' = token
    /\ IF localStorage # NoToken
         THEN /\ authHeader' = localStorage
              /\ Send([Request("me", localStorage) EXCEPT !.solo = FALSE])
              /\ authLoading' = authLoading
              /\ ev' = [Event("mount", "me") EXCEPT !.net = TRUE, !.cred = localStorage]
         ELSE /\ authHeader' = TokenEffectHeader(token, authHeader)
              /\ net' = net
              /\ authLoading' = FALSE
              /\ ev' = Event("mount", "me")
    /\ UNCHANGED <<localStorage, user, token, cartLoading, srvVars, histVars>>
    /\ UNCHANGED view

\* Variant: setLoading(false) sits in the try block instead of after it.
checkAuthResolvedLoadingOnSuccess(i, d) ==
    /\ calls' = calls
    /\ CanCall /\ i \in 1..Len(net)
    /\ net[i].op = "me" /\ Settles(i, d)
    /\ Settle(i)
    /\ IF net[i].st = "ok"
         THEN /\ user' = net[i].usr
              /\ token' = SavedToken(net[i])
              /\ session' = SavedToken(net[i])
              /\ validated' = TRUE
              /\ authLoading' = FALSE
              /\ ev' = Resolved(Settled(i, d), "success")
              /\ UNCHANGED <<localStorage, authHeader>>
         ELSE /\ localStorage' = CheckAuthFailedStorage(localStorage)
              /\ authHeader' = CheckAuthFailedHeader(authHeader)
              /\ session' = NoToken
              /\ validated' = FALSE
              /\ authLoading' = authLoading
              /\ ev' = Resolved(Settled(i, d), "silent")
              /\ UNCHANGED <<user, token>>
    /\ UNCHANGED <<mounted, tokenDep, cartVars, cartDep, srvVars, loggedOut>>
    /\ UNCHANGED view

\* Continuation of checkAuth after `await axios.get('/auth/me')`.
checkAuthResolved(i, d) ==
    /\ calls' = calls
    /\ CanCall /\ i \in 1..Len(net)
    /\ net[i].op = "me" /\ Settles(i, d)
    /\ Settle(i)
    /\ authLoading' = FALSE
    /\ IF net[i].st = "ok"
         THEN /\ user' = net[i].usr
              /\ token' = SavedToken(net[i])
              /\ session' = SavedToken(net[i])
              /\ validated' = TRUE
              /\ ev' = Resolved(Settled(i, d), "success")
              /\ UNCHANGED <<localStorage, authHeader>>
         ELSE /\ localStorage' = CheckAuthFailedStorage(localStorage)
              /\ authHeader' = CheckAuthFailedHeader(authHeader)
              /\ session' = NoToken
              /\ validated' = FALSE
              /\ ev' = Resolved(Settled(i, d), "silent")
              /\ UNCHANGED <<user, token>>
    /\ UNCHANGED <<mounted, tokenDep, cartVars, cartDep, srvVars, loggedOut>>
    /\ UNCHANGED view

\* login(email, password) up to its await.
login(a) ==
    /\ Invoke
    /\ CanCall /\ CanSend
    /\ Send([Request("login", authHeader) EXCEPT !.account = a, !.solo = FALSE])
    /\ ev' = Called("login", TRUE, "none", "")
    /\ UNCHANGED <<mounted, authVars, tokenDep, cartVars, cartDep, srvVars, histVars>>
    /\ UNCHANGED view

\* register(email, password, fullName, location) up to its await.
register(a) ==
    /\ Invoke
    /\ CanCall /\ CanSend
    /\ Send([Request("register", authHeader) EXCEPT !.account = a, !.solo = FALSE])
    /\ ev' = Called("register", TRUE, "none", "")
    /\ UNCHANGED <<mounted, authVars, tokenDep, cartVars, cartDep, srvVars, histVars>>
    /\ UNCHANGED view

\* Variant: the success branch does not call localStorage.setItem.
LoginStorageNotSet(r) == localStorage

\* State written by the success branch of login / register.
LoginStorage(r) == r.tok
LoginToken(r) == r.tok
LoginUser(r) == r.usr
LoginHeader(r) == r.tok

SessionEstablished(i, d) ==
    /\ localStorage' = LoginStorage(net[i])
    /\ token' = LoginToken(net[i])
    /\ user' = LoginUser(net[i])
    /\ authHeader' = LoginHeader(net[i])
    /\ session' = net[i].tok
    /\ validated' = TRUE
    /\ loggedOut' = FALSE
    /\ ev' = Resolved(Settled(i, d), "success")

\* Variant: the catch branch of login / register drops the current session.
SessionDroppedOnFailure(i, d) ==
    /\ ev' = Resolved(Settled(i, d), "failure")
    /\ user' = Null
    /\ token' = NoToken
    /\ UNCHANGED <<localStorage, authHeader, histVars>>

\* The catch branch of login / register: a failure result, no state written.
SessionUntouched(i, d) ==
    /\ ev' = Resolved(Settled(i, d), "failure")
    /\ UNCHANGED <<localStorage, token, user, authHeader, histVars>>

\* Continuation of login after `await axios.post('/auth/login')`.
loginResolved(i, d) ==
    /\ calls' = calls
    /\ CanCall /\ i \in 1..Len(net)
    /\ net[i].op = "login" /\ Settles(i, d)
    /\ Settle(i)
    /\ IF net[i].st = "ok" THEN SessionEstablished(i, d) ELSE SessionUntouched(i, d)
    /\ UNCHANGED <<mounted, authLoading, tokenDep, cartVars, cartDep, srvVars>>
    /\ UNCHANGED view

\* Variant: register's success branch does not persist the returned token.
registerResolvedNotPersisted(i, d) ==
    /\ calls' = calls
    /\ CanCall /\ i \in 1..Len(net)
    /\ net[i].op = "register" /\ Settles(i, d)
    /\ Settle(i)
    /\ IF net[i].st = "ok"
         THEN /\ token' = LoginToken(net[i])
              /\ user' = LoginUser(net[i])
              /\ authHeader' = LoginHeader(net[i])
              /\ session' = net[i].tok
              /\ validated' = TRUE
              /\ loggedOut' = FALSE
              /\ ev' = Resolved(Settled(i, d), "success")
              /\ UNCHANGED localStorage
         ELSE SessionUntouched(i, d)
    /\ UNCHANGED <<mounted, authLoading, tokenDep, cartVars, cartDep, srvVars>>
    /\ UNCHANGED view

\* Continuation of register after `await axios.post('/auth/register')`.
registerResolved(i, d) ==
    /\ calls' = calls
    /\ CanCall /\ i \in 1..Len(net)
    /\ net[i].op = "register" /\ Settles(i, d)
    /\ Settle(i)
    /\ IF net[i].st = "ok" THEN SessionEstablished(i, d) ELSE SessionUntouched(i, d)
    /\ UNCHANGED <<mounted, authLoading, tokenDep, cartVars, cartDep, srvVars>>
    /\ UNCHANGED view

\* History: logout sends nothing and cancels nothing; the AuthProvider requests
\* still pending when it runs are remembered as issued before a logout.
IssuedBeforeLogout ==
    [j \in 1..Len(net) |->
        IF net[j].op \in SessionOps THEN [net[j] EXCEPT !.old = TRUE] ELSE net[j]]

\* Variant: logout leaves the default Authorization header in place.
logoutKeepsHeader ==
    /\ Invoke
    /\ CanCall
    /\ localStorage' = NoToken
    /\ token' = NoToken
    /\ user' = Null
    /\ session' = NoToken
    /\ validated' = FALSE
    /\ loggedOut' = TRUE
    /\ net' = IssuedBeforeLogout
    /\ ev' = Called("logout", FALSE, "none", "")
    /\ UNCHANGED <<mounted, authHeader, authLoading, tokenDep, cartVars, cartDep, srvVars>>
    /\ UNCHANGED view

logout ==
    /\ Invoke
    /\ CanCall
    /\ localStorage' = NoToken
    /\ token' = NoToken
    /\ user' = Null
    /\ authHeader' = NoToken
    /\ session' = NoToken
    /\ validated' = FALSE
    /\ loggedOut' = TRUE
    /\ net' = IssuedBeforeLogout
    /\ ev' = Called("logout", FALSE, "none", "")
    /\ UNCHANGED <<mounted, authLoading, tokenDep, cartVars, cartDep, srvVars>>
    /\ UNCHANGED view

\* updateUser(userData) up to its await.
updateUser(n) ==
    /\ Invoke
    /\ CanCall /\ CanSend
    /\ Send([Request("updateUser", authHeader) EXCEPT !.name = n, !.solo = FALSE])
    /\ ev' = Called("updateUser", TRUE, "none", "")
    /\ UNCHANGED <<mounted, authVars, tokenDep, cartVars, cartDep, srvVars, histVars>>
    /\ UNCHANGED view

\* Variant: the catch branch of updateUser clears the user.
updateUserResolvedClearsOnFailure(i, d) ==
    /\ calls' = calls
    /\ CanCall /\ i \in 1..Len(net)
    /\ net[i].op = "updateUser" /\ Settles(i, d)
    /\ Settle(i)
    /\ IF net[i].st = "ok"
         THEN /\ user' = net[i].usr
              /\ ev' = Resolved(Settled(i, d), "success")
         ELSE /\ user' = Null
              /\ ev' = Resolved(Settled(i, d), "failure")
    /\ UNCHANGED <<mounted, localStorage, authHeader, token, authLoading, tokenDep,
                   cartVars, cartDep, srvVars, histVars>>
    /\ UNCHANGED view

\* Continuation of updateUser after `await axios.put('/auth/me')`.
updateUserResolved(i, d) ==
    /\ calls' = calls
    /\ CanCall /\ i \in 1..Len(net)
    /\ net[i].op = "updateUser" /\ Settles(i, d)
    /\ Settle(i)
    /\ IF net[i].st = "ok"
         THEN /\ user' = net[i].usr
              /\ ev' = Resolved(Settled(i, d), "success")
         ELSE /\ user' = user
              /\ ev' = Resolved(Settled(i, d), "failure")
    /\ UNCHANGED <<mounted, localStorage, authHeader, token, authLoading, tokenDep,
                   cartVars, cartDep, srvVars, histVars>>
    /\ UNCHANGED view

\* Page reload: component state and pending promises are gone, localStorage
\* and the server are kept.
Restart ==
    /\ Invoke
    /\ mounted
    /\ mounted' = FALSE
    /\ authHeader' = NoToken
    /\ user' = Null
    /\ token' = localStorage
    /\ authLoading' = TRUE
    /\ tokenDep' = NoToken
    /\ basket' = Null
    /\ basketOwner' = "none"
    /\ cartLoading' = FALSE
    /\ cartDep' = FALSE
    /\ net' = <<>>
    /\ ev' = Event("restart", "-")
    /\ session' = "unset"
    /\ validated' = FALSE
    /\ UNCHANGED <<localStorage, srvVars, loggedOut>>
    /\ UNCHANGED view

\* --------------------------------------------------------- CartProvider
\* Guard at the top of every CartProvider operation: `if (!isAuthenticated) return ...`.
CartGuard == isAuthenticated

\* Variant: addToBasket does not store the response.
SetBasketNotOnAdd(r, old) == IF r.op = "add" THEN old ELSE r.bsk

\* Variant: a response overtaken by a later-issued one is dropped.
SetBasketDropOvertaken(r, old) == IF r.late # 0 THEN old ELSE r.bsk

\* Snapshot stored by setBasket(response.data).
SetBasket(r, old) == r.bsk

\* What an operation returns when the guard short-circuits it.
ShortCircuit(op) ==
    CASE op = "fetch" -> "undefined"
      [] op = "summary" -> "null"
      [] OTHER -> "failure"

\* A pending mutating request that overlaps a newly issued one is no longer alone.
Overlapped(op) ==
    IF op \in MutatingOps
    THEN [j \in 1..Len(net) |-> IF net[j].op \in MutatingOps
                                 THEN [net[j] EXCEPT !.solo = FALSE] ELSE net[j]]
    ELSE net

\* A CartProvider operation up to its await: the guard, setLoading(true), the request.
CartCall(op, item, qty) ==
    /\ CanCall
    /\ Invoke
    /\ IF CartGuard
         THEN /\ CanSend
              /\ net' = Append(Overlapped(op),
                         [Request(op, authHeader) EXCEPT
                            !.item = item, !.qty = qty,
                            !.solo = (op \in MutatingOps /\ MutatingInFlight = {})])
              /\ cartLoading' = IF op = "summary" THEN cartLoading ELSE TRUE
              /\ ev' = [Called(op, TRUE, "none", "") EXCEPT !.item = item, !.qty = qty]
         ELSE /\ net' = net
              /\ cartLoading' = cartLoading
              /\ ev' = [Called(op, FALSE, ShortCircuit(op),
                                IF op \in MutatingOps THEN "Not authenticated" ELSE "")
                          EXCEPT !.item = item, !.qty = qty]
    /\ UNCHANGED <<mounted, authVars, tokenDep, basket, basketOwner, cartDep, srvVars, histVars>>
    /\ UNCHANGED view

fetchBasket == CartCall("fetch", "-", 0)

\* Items the basket view offers controls for.
ShownItems == IF basket = Null THEN {} ELSE ItemIds(basket[1].items)

addToBasket(p, q) == CartCall("add", p, q)

updateBasketItem(id, q) == CartCall("update", id, q)

removeFromBasket(id) == CartCall("remove", id, 0)

clearBasket == CartCall("clear", "-", 0)

getBasketSummary == CartCall("summary", "-", 0)

\* Continuation of fetchBasket after `await axios.get('/basket/')`.
fetchBasketResolved(i, d) ==
    /\ calls' = calls
    /\ CanCall /\ i \in 1..Len(net)
    /\ net[i].op = "fetch" /\ Settles(i, d)
    /\ Settle(i)
    /\ basket' = IF net[i].st = "ok" THEN SetBasket(net[i], basket) ELSE basket
    /\ basketOwner' = IF net[i].st = "ok" THEN UserOfToken(net[i].cred) ELSE basketOwner
    /\ cartLoading' = FALSE
    /\ ev' = Resolved(Settled(i, d), "undefined")
    /\ UNCHANGED <<mounted, authVars, tokenDep, cartDep, srvVars, histVars>>
    /\ UNCHANGED view

\* Variant: the catch branch of a mutating operation clears the snapshot.
MutatingResolvedClearsOnFailure(i, d) ==
    /\ calls' = calls
    /\ CanCall /\ i \in 1..Len(net)
    /\ net[i].op \in MutatingOps /\ Settles(i, d)
    /\ Settle(i)
    /\ basket' = IF net[i].st = "ok" THEN SetBasket(net[i], basket) ELSE Null
    /\ basketOwner' = IF net[i].st = "ok" THEN UserOfToken(net[i].cred) ELSE basketOwner
    /\ cartLoading' = FALSE
    /\ ev' = Resolved(Settled(i, d), IF net[i].st = "ok" THEN "success" ELSE "failure")
    /\ UNCHANGED <<mounted, authVars, tokenDep, cartDep, srvVars, histVars>>
    /\ UNCHANGED view

\* Continuation of addToBasket / updateBasketItem / removeFromBasket / clearBasket.
MutatingResolved(i, d) ==
    /\ calls' = calls
    /\ CanCall /\ i \in 1..Len(net)
    /\ net[i].op \in MutatingOps /\ Settles(i, d)
    /\ Settle(i)
    /\ basket' = IF net[i].st = "ok" THEN SetBasket(net[i], basket) ELSE basket
    /\ basketOwner' = IF net[i].st = "ok" THEN UserOfToken(net[i].cred) ELSE basketOwner
    /\ cartLoading' = FALSE
    /\ ev' = Resolved(Settled(i, d), IF net[i].st = "ok" THEN "success" ELSE "failure")
    /\ UNCHANGED <<mounted, authVars, tokenDep, cartDep, srvVars, histVars>>
    /\ UNCHANGED view

\* Variant: getBasketSummary stores its response as the snapshot.
getBasketSummaryResolvedStores(i, d) ==
    /\ calls' = calls
    /\ CanCall /\ i \in 1..Len(net)
    /\ net[i].op = "summary" /\ Settles(i, d)
    /\ Settle(i)
    /\ basket' = IF net[i].st = "ok" THEN SetBasket(net[i], basket) ELSE basket
    /\ ev' = Resolved(Settled(i, d), IF net[i].st = "ok" THEN "payload" ELSE "null")
    /\ UNCHANGED <<mounted, authVars, tokenDep, cartLoading, basketOwner, cartDep,
                   srvVars, histVars>>
    /\ UNCHANGED view

\* Continuation of getBasketSummary after `await axios.get('/basket/summary')`.
getBasketSummaryResolved(i, d) ==
    /\ calls' = calls
    /\ CanCall /\ i \in 1..Len(net)
    /\ net[i].op = "summary" /\ Settles(i, d)
    /\ Settle(i)
    /\ ev' = Resolved(Settled(i, d), IF net[i].st = "ok" THEN "payload" ELSE "null")
    /\ UNCHANGED <<mounted, authVars, tokenDep, cartVars, cartDep, srvVars, histVars>>
    /\ UNCHANGED view

\* The effects of a commit, children first: CartProvider's
\* useEffect(..., [isAuthenticated]), then AuthProvider's useEffect(..., [token]).
RunEffects ==
    /\ calls' = calls
    /\ EffectsPending
    /\ IF cartDep # isAuthenticated
         THEN IF isAuthenticated
              THEN /\ Send([Request("fetch", authHeader) EXCEPT !.solo = FALSE])
                   /\ cartLoading' = TRUE
                   /\ UNCHANGED <<basket, basketOwner>>
                   /\ ev' = [Event("effect", "fetch") EXCEPT !.net = TRUE, !.cred = authHeader]
              ELSE /\ basket' = Null
                   /\ basketOwner' = "none"
                   /\ net' = net
                   /\ cartLoading' = cartLoading
                   /\ ev' = Event("effect", "discard")
         ELSE /\ UNCHANGED <<basket, basketOwner, net, cartLoading>>
              /\ ev' = Event("effect", "token")
    /\ cartDep' = isAuthenticated
    /\ authHeader' = IF tokenDep # token THEN TokenEffectHeader(token, authHeader)
                                          ELSE authHeader
    /\ tokenDep' = token
    /\ UNCHANGED <<mounted, localStorage, user, token, authLoading, srvVars, histVars>>
    /\ UNCHANGED view

\* --------------------------------------------------------------- server
\* Basket items after a mutating request is applied.
Applied(items, r) ==
    CASE r.op = "add" ->
           IF r.item \in ItemIds(items)
           THEN [items EXCEPT ![IndexOf(items, r.item)] =
                    Item(r.item, items[IndexOf(items, r.item)].quantity + r.qty)]
           ELSE Append(items, Item(r.item, r.qty))
      [] r.op = "update" ->
           [items EXCEPT ![IndexOf(items, r.item)] = Item(r.item, r.qty)]
      [] r.op = "remove" -> RemoveAt(items, IndexOf(items, r.item))
      [] r.op = "clear" -> <<>>
      [] OTHER -> items

\* The server accepts the request.
Acceptable(r) ==
    CASE r.op \in {"login", "register"} -> TRUE
      [] r.op = "add" ->
           /\ ValidToken(r.cred)
           /\ LET items == srvBasket[UserOfToken(r.cred)]
              IN  r.item \in ItemIds(items) =>
                     items[IndexOf(items, r.item)].quantity + r.qty <= MaxQty * Unit
      [] r.op \in {"update", "remove"} ->
           /\ ValidToken(r.cred)
           /\ r.item \in ItemIds(srvBasket[UserOfToken(r.cred)])
      [] OTHER -> ValidToken(r.cred)

ServerOk(i) ==
    /\ calls' = calls
    /\ i \in 1..Len(net)
    /\ net[i].st = "sent"
    /\ Acceptable(net[i])
    /\ LET r == net[i]
           u == IF r.op \in {"login", "register"} THEN r.account ELSE UserOfToken(r.cred)
           names == IF r.op = "updateUser" THEN [srvName EXCEPT ![u] = r.name] ELSE srvName
           items == Applied(srvBasket[u], r)
       IN  /\ srvName' = names
           /\ srvBasket' = [srvBasket EXCEPT ![u] = items]
           /\ net' = [net EXCEPT ![i] =
                 [r EXCEPT !.st = "ok",
                    !.tok = IF r.op \in {"login", "register"} THEN TokenOf(u) ELSE NoToken,
                    !.usr = IF r.op \in SessionOps
                            THEN Some([id |-> u, full_name |-> names[u]]) ELSE Null,
                    !.bsk = IF r.op \in CartOps \ {"summary"}
                            THEN Some(Snapshot(items)) ELSE Null]]
    /\ ev' = Event("server", net[i].op)
    /\ UNCHANGED <<mounted, authVars, tokenDep, cartVars, cartDep, histVars>>
    /\ UNCHANGED view

\* ----------------------------------------------------------------- Next
Next ==
    \/ Mount
    \/ Restart
    \/ RunEffects
    \/ \E a \in Users : login(a)
    \/ \E a \in Users : register(a)
    \/ logout
    \/ \E n \in Names : updateUser(n)
    \/ fetchBasket
    \/ \E p \in Products, q \in 1..2 : addToBasket(p, q * Unit)
    \/ \E id \in ShownItems, q \in 1..MaxQty : updateBasketItem(id, q * Unit)
    \/ \E id \in ShownItems : removeFromBasket(id)
    \/ clearBasket
    \/ getBasketSummary
    \/ \E i \in 1..Len(net) :
          \/ \E d \in Details : checkAuthResolved(i, d)
          \/ \E d \in Details : loginResolved(i, d)
          \/ \E d \in Details : registerResolved(i, d)
          \/ \E d \in Details : updateUserResolved(i, d)
          \/ \E d \in Details : fetchBasketResolved(i, d)
          \/ \E d \in Details : MutatingResolved(i, d)
          \/ \E d \in Details : getBasketSummaryResolved(i, d)
          \/ ServerOk(i)

Spec == Init /\ [][Next]_vars

\* AuthProvider from startup on, with the pages invoking its operations only:
\* CartProvider takes part through its effect on isAuthenticated.
NextStartup ==
    \/ Mount
    \/ Restart
    \/ RunEffects
    \/ \E a \in Users : login(a)
    \/ \E a \in Users : register(a)
    \/ logout
    \/ \E n \in Names : updateUser(n)
    \/ \E i \in 1..Len(net) :
          \/ \E d \in Details : checkAuthResolved(i, d)
          \/ \E d \in Details : loginResolved(i, d)
          \/ \E d \in Details : registerResolved(i, d)
          \/ \E d \in Details : updateUserResolved(i, d)
          \/ \E d \in Details : fetchBasketResolved(i, d)
          \/ ServerOk(i)

\* Scheduling: React runs the mount effects after the first render and flushes
\* pending effects after every commit, and the validation request resolves
\* (with the server's answer or with an error).
SpecStartup ==
    /\ Init
    /\ [][NextStartup]_vars
    /\ WF_vars(Mount)
    /\ WF_vars(RunEffects)
    /\ WF_vars(\E i \in 1..Len(net), d \in Details : checkAuthResolved(i, d))

\* ----------------------------------------------------------- BasketPage
\* The quantity controls of the basket page, on top of CartProvider and the
\* server: a page that shows the snapshot of an authenticated session.
QuantityStep == 50
MinQuantity == 10
DecrementDisabledAt == 50

\* Quantities the server may hold for the item when the page is opened: on
\* and off the 0.5 grid, none within rounding distance of a threshold.
ShownQuantities == {50, 55, 70, 100, 150, 250}

\* Products the basket may hold when the page is opened: P1 and P3 are sold by
\* one store, P2 by another.
ShownProducts == {"P1", "P2", "P3"}

\* Baskets the server may hold when the page is opened: one item in any of the
\* quantities, or any arrangement of distinct products.
ShownBaskets ==
    {<<Item("P1", q)>> : q \in ShownQuantities}
    \cup {<<>>}
    \cup {<<Item(p[1], Unit), Item(p[2], Unit)>> :
               p \in {t \in ShownProducts \X ShownProducts : t[1] # t[2]}}
    \cup {<<Item(p[1], Unit), Item(p[2], 2 * Unit), Item(p[3], Unit)>> :
               p \in {t \in ShownProducts \X ShownProducts \X ShownProducts :
                          t[1] # t[2] /\ t[1] # t[3] /\ t[2] # t[3]}}

\* Variant: the callback starts the store's array again at every item.
GroupStepOverwrites(acc, item) ==
    [s \in DOMAIN acc \cup {item.store_name} |->
        IF s = item.store_name THEN <<item>> ELSE acc[s]]

\* The reduce callback of groupItemsByStore: create the store's array when it
\* is missing, push the item.
GroupStep(acc, item) ==
    [s \in DOMAIN acc \cup {item.store_name} |->
        IF s = item.store_name
        THEN Append(IF s \in DOMAIN acc THEN acc[s] ELSE <<>>, item)
        ELSE acc[s]]

RECURSIVE GroupReduce(_, _)
GroupReduce(acc, items) ==
    IF items = <<>> THEN acc ELSE GroupReduce(GroupStep(acc, Head(items)), Tail(items))

\* items.reduce(callback, {}): store_name -> items of that store.
groupItemsByStore(items) == GroupReduce([s \in {} |-> <<>>], items)

\* storeItems.reduce((total, item) => total + item.total_price, 0)
RECURSIVE calculateStoreTotal(_)
calculateStoreTotal(storeItems) ==
    IF storeItems = <<>> THEN 0
    ELSE calculateStoreTotal(SubSeq(storeItems, 1, Len(storeItems) - 1))
             + storeItems[Len(storeItems)].total_price

hasItems == basket # Null /\ Len(basket[1].items) > 0

groupedItems == IF hasItems THEN groupItemsByStore(basket[1].items) ELSE [s \in {} |-> <<>>]

\* item.quantity of the item the controls are rendered for.
QuantityOf(id) == basket[1].items[IndexOf(basket[1].items, id)].quantity

\* Variant: only a negative quantity is refused.
BelowMinimumNegativeOnly(newQuantity) == newQuantity < 0

\* `newQuantity < 0.1`
BelowMinimum(newQuantity) == newQuantity < MinQuantity

handleQuantityChange(itemId, newQuantity) ==
    IF BelowMinimum(newQuantity)
    THEN /\ CanCall
         /\ Invoke
         /\ ev' = [Event("view", "handleQuantityChange") EXCEPT
                      !.res = "undefined", !.item = itemId, !.qty = newQuantity]
         /\ UNCHANGED <<mounted, authVars, tokenDep, cartVars, cartDep, net,
                        srvVars, histVars, view>>
    ELSE updateBasketItem(itemId, newQuantity)

\* The minus button: disabled={item.quantity <= 0.5}.
DecrementClicked(id) ==
    /\ ~(QuantityOf(id) <= DecrementDisabledAt)
    /\ handleQuantityChange(id, QuantityOf(id) - QuantityStep)

\* The plus button.
IncrementClicked(id) ==
    /\ QuantityOf(id) + QuantityStep <= MaxQty * Unit
    /\ handleQuantityChange(id, QuantityOf(id) + QuantityStep)

handleRemoveItem(itemId) == removeFromBasket(itemId)

\* Every provider variable: what a page's own handlers leave alone.
providerVars == <<mounted, localStorage, authHeader, user, token, authLoading,
                  tokenDep, basket, cartLoading, cartDep, net, srvName,
                  srvBasket, ev, session, validated, loggedOut, basketOwner,
                  calls>>

\* The providers of a page opened in an authenticated session at rest: u1 is
\* signed in, nothing is in flight and the snapshot is the server's basket.
SignedIn(items) ==
    /\ mounted = TRUE
    /\ localStorage = "t1"
    /\ authHeader = "t1"
    /\ token = "t1"
    /\ authLoading = FALSE
    /\ tokenDep = "t1"
    /\ cartLoading = FALSE
    /\ cartDep = TRUE
    /\ net = <<>>
    /\ srvName = [u \in Users |-> "a"]
    /\ user = Some([id |-> "u1", full_name |-> "a"])
    /\ srvBasket = [u \in Users |-> IF u = "u1" THEN items ELSE <<>>]
    /\ basket = Some(Snapshot(items))
    /\ ev = Event("init", "-")
    /\ session = "t1"
    /\ validated = TRUE
    /\ loggedOut = FALSE
    /\ basketOwner = "u1"
    /\ calls = 0

InitBasketPage ==
    /\ \E items \in ShownBaskets : SignedIn(items)
    /\ view = Null

NextBasketPage ==
    \/ \E id \in ShownItems : DecrementClicked(id)
    \/ \E id \in ShownItems : IncrementClicked(id)
    \/ \E id \in ShownItems : handleRemoveItem(id)
    \/ \E i \in 1..Len(net) :
          \/ \E d \in Details : MutatingResolved(i, d)
          \/ ServerOk(i)

SpecBasketPage == InitBasketPage /\ [][NextBasketPage]_vars

\* ---------------------------------------------- cheapest offer of a product
\* HomePage's featured-product tile and SearchPage's ProductCard each pick the
\* cheapest of a product's store offers.  Prices are in pence.
MaxOffers == 3

OfferStores == {"S1", "S2", "S3"}

OfferPrices == {100, 150, 200}

Offers == [store_name : OfferStores, price : OfferPrices]

\* product.prices of a product with at least one offer.
ShownOffers == UNION {[1..n -> Offers] : n \in 1..MaxOffers}

\* Math.min(...xs) of a non-empty argument list.
RECURSIVE MathMin(_)
MathMin(xs) ==
    IF Len(xs) = 1 THEN xs[1]
    ELSE LET m == MathMin(Tail(xs))
         IN  IF xs[1] < m THEN xs[1] ELSE m

\* HomePage: Math.min(...product.prices.map(p => p.price)).
cheapestPrice(prices) == MathMin([i \in 1..Len(prices) |-> prices[i].price])

\* HomePage: product.prices.find(p => p.price === cheapestPrice), the first
\* match or undefined (Null).
cheapestStore(prices) ==
    LET found == {i \in 1..Len(prices) : prices[i].price = cheapestPrice(prices)}
    IN  IF found = {} THEN Null
        ELSE Some(prices[CHOOSE i \in found : \A j \in found : i <= j])

\* A comparator that orders the wrong way round.
compareDescending(a, b) == b.price - a.price

\* ProductCard: the comparator (a, b) => a.price - b.price.
compare(a, b) == a.price - b.price

\* Array.prototype.sort is stable: an element goes after every element that
\* does not compare greater than it.
SortInsert(sorted, x) ==
    LET after == {i \in 1..Len(sorted) : compare(sorted[i], x) > 0}
        k == IF after = {} THEN Len(sorted) + 1
             ELSE CHOOSE i \in after : \A j \in after : i <= j
    IN  SubSeq(sorted, 1, k - 1) \o <<x>> \o SubSeq(sorted, k, Len(sorted))

\* ProductCard: [...product.prices].sort(compare).
RECURSIVE sortedPrices(_)
sortedPrices(prices) ==
    IF prices = <<>> THEN <<>>
    ELSE SortInsert(sortedPrices(SubSeq(prices, 1, Len(prices) - 1)),
                    prices[Len(prices)])

\* HomePage tile: the price and the store shown ("at undefined" never shows:
\* cheapestStore?.store_name renders nothing when find found nothing).
HomePageTile ==
    /\ view # Null
    /\ view[1].dashboard = Null
    /\ LET store == cheapestStore(view[1].prices)
       IN  view' = Some([view[1] EXCEPT !.dashboard =
                   Some([price |-> cheapestPrice(view[1].prices),
                         store_name |-> IF store = Null THEN "undefined"
                                        ELSE store[1].store_name])])
    /\ UNCHANGED providerVars

\* ProductCard: sortedPrices[0] gives both the price and the store shown.
ProductCard ==
    /\ view # Null
    /\ view[1].card = Null
    /\ LET first == sortedPrices(view[1].prices)[1]
       IN  view' = Some([view[1] EXCEPT !.card =
                   Some([price |-> first.price, store_name |-> first.store_name])])
    /\ UNCHANGED providerVars

InitOffers ==
    /\ SignedIn(<<>>)
    /\ \E prices \in ShownOffers :
          view = Some([prices |-> prices, dashboard |-> Null, card |-> Null])

NextOffers == HomePageTile \/ ProductCard

SpecOffers == InitOffers /\ [][NextOffers]_vars

\* ------------------------------------------------------- ShoppingListsPage
\* The page's shoppingLists and selectedList state; a list is its id.
MaxLists == 3

MaxDeletes == 2

ListIds == 1..MaxLists

\* response.data of GET /shopping-lists/: the user's lists, each once.
FetchedLists ==
    {s \in UNION {[1..n -> ListIds] : n \in 0..MaxLists} :
        \A i, j \in DOMAIN s : i # j => s[i] # s[j]}

\* prev.filter(list => list.id !== listId)
WithoutList(lists, listId) == SelectSeq(lists, LAMBDA l : l # listId)

\* onClick={() => setSelectedList(list)}
selectList(l) ==
    /\ view # Null
    /\ \E i \in 1..Len(view[1].shoppingLists) : view[1].shoppingLists[i] = l
    /\ view' = Some([view[1] EXCEPT !.selectedList = Some(l), !.last = Null])
    /\ UNCHANGED providerVars

\* deleteShoppingList(listId) up to its await, the confirm dialog accepted:
\* the continuation keeps the shoppingLists and selectedList of this render.
deleteShoppingList(listId) ==
    /\ view # Null
    /\ Len(view[1].deletes) < MaxDeletes
    /\ \E i \in 1..Len(view[1].shoppingLists) : view[1].shoppingLists[i] = listId
    /\ view' = Some([view[1] EXCEPT
                  !.deletes = Append(@, [listId |-> listId,
                                         shoppingLists |-> view[1].shoppingLists,
                                         selectedList |-> view[1].selectedList]),
                  !.last = Null])
    /\ UNCHANGED providerVars

\* Continuation of deleteShoppingList after `await axios.delete(...)`.
deleteShoppingListResolved(k, ok) ==
    /\ view # Null
    /\ k \in 1..Len(view[1].deletes)
    /\ LET call == view[1].deletes[k]
           rest == RemoveAt(view[1].deletes, k)
       IN  IF ok
             THEN view' = Some([view[1] EXCEPT
                      !.deletes = rest,
                      !.shoppingLists = WithoutList(@, call.listId),
                      !.selectedList =
                          IF call.selectedList = Some(call.listId)
                            THEN IF Len(call.shoppingLists) > 1
                                   THEN Some(call.shoppingLists[1])
                                   ELSE Null
                            ELSE @,
                      !.last = Some([listId |-> call.listId,
                                     selected |-> view[1].selectedList])])
             ELSE view' = Some([view[1] EXCEPT !.deletes = rest, !.last = Null])
    /\ UNCHANGED providerVars

\* The lists have been fetched: the first one, if any, is selected.
InitLists ==
    /\ SignedIn(<<>>)
    /\ \E lists \in FetchedLists :
          view = Some([shoppingLists |-> lists,
                       selectedList |-> IF Len(lists) > 0 THEN Some(lists[1]) ELSE Null,
                       deletes |-> <<>>,
                       last |-> Null])

NextLists ==
    \/ \E l \in ListIds : selectList(l)
    \/ \E l \in ListIds : deleteShoppingList(l)
    \/ \E k \in 1..MaxDeletes, ok \in BOOLEAN : deleteShoppingListResolved(k, ok)

SpecLists == InitLists /\ [][NextLists]_vars

\* -------------------------------------------------------------- SearchPage
\* The page's products, page, selectedCategory, loading and searchPerformed
\* state for a typed, non-empty searchQuery.  A product page is the pair of
\* the filter and the page number it was requested with; selectedCategory
\* stands for both filters (selectedCategory, sortBy).
MaxPages == 3

MaxSearches == 2

Categories == {"", "dairy"}

\* response.data.total, counted in pages of per_page products.
totalResults == MaxPages

\* searchProducts(resetPage) up to its await, called from a render whose
\* state is `page` and `category`.
searchProducts(resetPage, page, category) ==
    /\ Len(view[1].searches) < MaxSearches
    /\ view' = Some([view[1] EXCEPT
                  !.loading = TRUE,
                  !.selectedCategory = category,
                  !.page = IF resetPage THEN @ ELSE @ + 1,
                  !.searches = Append(@, [resetPage |-> resetPage,
                                          currentPage |-> IF resetPage THEN 1 ELSE page,
                                          category |-> category])])
    /\ UNCHANGED providerVars

\* The Search button (disabled while loading).
handleSearch ==
    /\ view # Null
    /\ ~view[1].loading
    /\ searchProducts(TRUE, view[1].page, view[1].selectedCategory)

\* The Load More button (shown while products.length < totalResults, disabled
\* while loading): setPage(prev => prev + 1), then searchProducts(false) of
\* the render the button belongs to.  The counter is capped at MaxPages + 1.
handleLoadMore ==
    /\ view # Null
    /\ view[1].searchPerformed
    /\ Len(view[1].products) < totalResults
    /\ ~view[1].loading
    /\ view[1].page <= MaxPages
    /\ searchProducts(FALSE, view[1].page, view[1].selectedCategory)

\* A filter is changed; the effect on [selectedCategory, sortBy] searches again
\* once a search has been performed.
filterChanged(category) ==
    /\ view # Null
    /\ category # view[1].selectedCategory
    /\ IF view[1].searchPerformed
         THEN searchProducts(TRUE, view[1].page, category)
         ELSE /\ view' = Some([view[1] EXCEPT !.selectedCategory = category])
              /\ UNCHANGED providerVars

\* Continuation of searchProducts after `await axios.get(...)`.
searchProductsResolved(k, ok) ==
    /\ view # Null
    /\ k \in 1..Len(view[1].searches)
    /\ LET call == view[1].searches[k]
           result == [category |-> call.category, page |-> call.currentPage]
       IN  view' = Some([view[1] EXCEPT
                  !.searches = RemoveAt(@, k),
                  !.loading = FALSE,
                  !.products = IF ~ok THEN @
                               ELSE IF call.resetPage THEN <<result>>
                               ELSE Append(@, result),
                  !.page = IF ok /\ call.resetPage THEN 1 ELSE @,
                  !.searchPerformed = IF ok THEN TRUE ELSE @])
    /\ UNCHANGED providerVars

InitSearch ==
    /\ SignedIn(<<>>)
    /\ view = Some([products |-> <<>>, page |-> 1, selectedCategory |-> "",
                    loading |-> FALSE, searchPerformed |-> FALSE, searches |-> <<>>])

NextSearch ==
    \/ handleSearch
    \/ handleLoadMore
    \/ \E c \in Categories : filterChanged(c)
    \/ \E k \in 1..MaxSearches, ok \in BOOLEAN : searchProductsResolved(k, ok)

SpecSearch == InitSearch /\ [][NextSearch]_vars

\* =============================================================== claims

\* C1: in every reachable state the user is present exactly when a token is
\* present that was last validated successfully; in particular the user is
\* never present while the token is absent.
C1_UserIffValidatedToken ==
    /\ user # Null => (token # NoToken /\ UserOfToken(token) = user[1].id)
    /\ (token # NoToken /\ validated) => user # Null

\* C2: every request carries the credential of the session in force when it
\* is issued: the session's token while a session lasts, no credential after
\* logout or a failed initialize.
C2_RequestCarriesSessionCredential ==
    ev.net => (session = "unset" \/ ev.cred = session)

\* C3: whenever the authentication flag is false and the flag change has been
\* processed by CartProvider, the basket snapshot is absent.
C3_DisabledHasNoSnapshot ==
    (mounted /\ ~isAuthenticated /\ cartDep = isAuthenticated) => basket = Null

\* C4: after logout(), until the next successful login or register, every
\* CartProvider operation returns a failure (or nothing) and sends no request.
C4_NoCartRequestAfterLogout ==
    (loggedOut /\ ev.kind \in {"call", "effect"} /\ ev.op \in CartOps)
        => (~ev.net /\ ev.res \in {"failure", "undefined", "null"})

\* C5: when a mutating operation that overlapped no other mutating operation
\* succeeds, the snapshot equals the server's basket of the account the
\* request was made for.
C5_SequentialNoDrift ==
    (ev.kind = "resolve" /\ ev.op \in MutatingOps /\ ev.st = "ok" /\ ev.solo)
        => basket = Some(Snapshot(srvBasket[UserOfToken(ev.cred)]))

\* C5 example: addItem of quantity 2 into an empty basket, the response holding
\* one item of total_price 4.00.
C5_Witness ==
    /\ ev.kind = "resolve" /\ ev.op = "add" /\ ev.st = "ok" /\ ev.solo /\ ev.qty = 2 * Unit
    /\ basket # Null
    /\ basket[1].total_items = 1
    /\ basket[1].items[1].total_price = 400
    /\ basket[1].total_cost = 400
    /\ srvBasket[UserOfToken(ev.cred)] = basket[1].items

\* C6: whenever CartProvider is Active, holds a snapshot and has no cart request
\* in flight, the snapshot (one the server returned for the current user)
\* equals the server's current basket of that user.
C6_SnapshotIsServerBasket ==
    (mounted /\ isAuthenticated /\ basket # Null /\ CartInFlight = {}
        /\ basketOwner = user[1].id)
        => basket = Some(Snapshot(srvBasket[user[1].id]))

\* C7: the snapshot after a mutating response is that response, whatever was
\* delivered before it: an updateBasketItem response shows the quantity of its
\* own request even when a later-issued update was delivered first.
C7_LastResponseWins ==
    (ev.kind = "resolve" /\ ev.op \in MutatingOps /\ ev.st = "ok")
        => /\ basket = ev.bsk
           /\ ev.op = "update" =>
                 \E k \in 1..Len(basket[1].items) :
                    /\ basket[1].items[k].id = ev.item
                    /\ basket[1].items[k].quantity = ev.qty

\* C7 scenario: updates to 2 then 3 are issued, the response for 3 arrives
\* first, the response for 2 last; nothing else is pending.
C7_Witness ==
    /\ ev.kind = "resolve" /\ ev.op = "update" /\ ev.st = "ok"
    /\ ev.qty = 2 * Unit /\ ev.late = 3 * Unit
    /\ MutatingInFlight = {}
    /\ basket # Null /\ basket[1].items[1].quantity = 2 * Unit

\* C8: a failed startup validation ends with the session unauthenticated and
\* the persisted token removed, surfaces no error and is not retried.
C8_FailedValidationDemotes ==
    (ev.kind = "resolve" /\ ev.op = "me" /\ ev.st = "err")
        => /\ ~isAuthenticated
           /\ localStorage = NoToken
           /\ ev.res = "silent"
           /\ \A i \in 1..Len(net) : net[i].op # "me"

\* C9: initialize sends GET /auth/me exactly when a token is persisted at
\* startup; on success the token becomes the token persisted at startup, the
\* user the returned profile, and localStorage is left alone; with no token
\* persisted nothing is sent and the session stays unauthenticated.
C9_Initialize ==
    [][ /\ ev'.kind = "mount" =>
             /\ ev'.net <=> (localStorage # NoToken)
             /\ ev'.net => ev'.cred = localStorage
             /\ (localStorage = NoToken) =>
                    (net' = net /\ user' = Null /\ token' = NoToken /\ ~isAuthenticated')
        /\ (ev'.kind = "resolve" /\ ev'.op = "me" /\ ev'.st = "ok") =>
             /\ token' = ev'.cred
             /\ user' = ev'.usr
             /\ isAuthenticated'
             /\ localStorage' = localStorage
      ]_vars

C9_Witness ==
    /\ ev.kind = "resolve" /\ ev.op = "me" /\ ev.st = "ok"
    /\ token = "t1" /\ localStorage = "t1" /\ user # Null /\ user[1].id = "u1"

\* C10: a login the server accepts persists the returned token, sets token and
\* user to the returned ones, makes isAuthenticated true and returns success.
C10_LoginSuccess ==
    (ev.kind = "resolve" /\ ev.op = "login" /\ ev.st = "ok")
        => /\ localStorage = ev.tok
           /\ token = ev.tok
           /\ user = ev.usr
           /\ isAuthenticated
           /\ ev.res = "success"

C10_Witness ==
    /\ ev.kind = "resolve" /\ ev.op = "login" /\ ev.st = "ok"
    /\ token = "t2" /\ localStorage = "t2" /\ user # Null /\ user[1].id = "u2"

C12_LoginFailure ==
    [][ (ev'.kind = "resolve" /\ ev'.op = "login" /\ ev'.st = "err") =>
            /\ ev'.res = "failure"
            /\ ev'.msg = (IF ev'.detail # "null" THEN ev'.detail ELSE "Login failed")
            /\ UNCHANGED <<token, user, localStorage, authHeader>>
      ]_vars

\* C12 case: a login without error detail fails while a session is authenticated.
C12_Witness ==
    /\ ev.kind = "resolve" /\ ev.op = "login" /\ ev.st = "err"
    /\ ev.detail = "null" /\ ev.msg = "Login failed" /\ ev.res = "failure"
    /\ isAuthenticated /\ token = "t1" /\ localStorage = "t1" /\ authHeader = "t1"

\* C13: register and login are the same function of the starting state and of
\* the server's outcome: on acceptance both persist the returned token, set
\* token, user and the Authorization header from the response and return
\* success; on failure both return a failure and write nothing.
C13_RegisterAsLogin ==
    [][ (ev'.kind = "resolve" /\ ev'.op \in {"login", "register"}) =>
            <<localStorage', token', user', authHeader', ev'.res>> =
                IF ev'.st = "ok"
                THEN <<ev'.tok, ev'.tok, ev'.usr, ev'.tok, "success">>
                ELSE <<localStorage, token, user, authHeader, "failure">>
      ]_vars

\* C13 case: a register the server accepts.
C13_Witness ==
    /\ ev.kind = "resolve" /\ ev.op = "register" /\ ev.st = "ok" /\ ev.res = "success"
    /\ localStorage = "t1" /\ token = "t1" /\ authHeader = "t1"
    /\ user # Null /\ user[1].id = "u1"

\* C14: logout() sends nothing (the requests in flight stay as they are, up to
\* the history mark), has no failure outcome, and right after it
\* localStorage holds no token, token and user are absent, the Authorization
\* header is removed and isAuthenticated is false, whatever the state before.
C14_LogoutLocal ==
    [][ (ev'.kind = "call" /\ ev'.op = "logout") =>
            /\ Len(net') = Len(net) /\ ~ev'.net
            /\ \A j \in 1..Len(net) : [net'[j] EXCEPT !.old = net[j].old] = net[j]
            /\ ev'.res = "none"
            /\ localStorage' = NoToken /\ token' = NoToken /\ user' = Null
            /\ authHeader' = NoToken
            /\ ~isAuthenticated'
      ]_vars

\* C14 case: logout of an authenticated session that holds a snapshot, while a
\* request is pending.
C14_Witness ==
    /\ ev.kind = "call" /\ ev.op = "logout"
    /\ basket # Null /\ net # <<>>
    /\ user = Null /\ token = NoToken /\ localStorage = NoToken /\ authHeader = NoToken

\* C15: a successful updateUser replaces user with the profile the server
\* returned and leaves token and localStorage alone; a failed one returns a
\* failure result and leaves user, token and localStorage alone.
C15_UpdateUserFrame ==
    [][ (ev'.kind = "resolve" /\ ev'.op = "updateUser") =>
            /\ token' = token /\ localStorage' = localStorage
            /\ IF ev'.st = "ok"
               THEN user' = ev'.usr /\ ev'.usr # Null /\ ev'.res = "success"
               ELSE user' = user /\ ev'.res = "failure"
      ]_vars

\* C15 case: the profile name is changed from "a" to "b".
C15_Witness ==
    /\ ev.kind = "resolve" /\ ev.op = "updateUser" /\ ev.st = "ok"
    /\ user # Null /\ user[1].full_name = "b" /\ srvName[user[1].id] = "b"
    /\ token # NoToken /\ localStorage = token

\* C16 as stated: the three derived values are 0 when the snapshot is absent
\* and otherwise equal to the snapshot's total_items, total_cost and
\* estimated_savings fields.
C16_DerivedEqualFields ==
    IF basket = Null
    THEN itemCount = 0 /\ totalCost = 0 /\ estimatedSavings = 0
    ELSE /\ itemCount = basket[1].total_items
         /\ totalCost = basket[1].total_cost
         /\ Some(estimatedSavings) = basket[1].estimated_savings

\* C16 amended: the three derived values are 0 when the snapshot is absent;
\* otherwise each equals the snapshot's field when the snapshot carries it and
\* is 0 when it does not (total_items and total_cost are always carried,
\* estimated_savings is optional).
C16_DerivedFieldsOrZero ==
    IF basket = Null
    THEN itemCount = 0 /\ totalCost = 0 /\ estimatedSavings = 0
    ELSE /\ itemCount = basket[1].total_items
         /\ totalCost = basket[1].total_cost
         /\ estimatedSavings = IF basket[1].estimated_savings = Null
                               THEN 0 ELSE basket[1].estimated_savings[1]

\* C16 case: a snapshot of one item of quantity 2.
C16_Witness ==
    /\ basket # Null /\ Len(basket[1].items) = 1 /\ basket[1].items[1].quantity = 2 * Unit
    /\ itemCount = 1 /\ totalCost = 400 /\ estimatedSavings = 10

\* C17: getBasketSummary never writes the snapshot: neither the call nor its
\* continuation changes it; the continuation returns the payload on success
\* and null on failure, and the short-circuited call returns null.
C17_SummaryKeepsSnapshot ==
    [][ (ev'.op = "summary" /\ ev'.kind \in {"call", "resolve"}) =>
            /\ basket' = basket
            /\ ev'.kind = "resolve" =>
                  ev'.res = (IF ev'.st = "ok" THEN "payload" ELSE "null")
            /\ ev'.kind = "call" => (IF ev'.net THEN ev'.res = "none" ELSE ev'.res = "null")
      ]_vars

\* C17 case: the summary is returned while a snapshot with an item is held.
C17_Witness ==
    /\ ev.kind = "resolve" /\ ev.op = "summary" /\ ev.st = "ok" /\ ev.res = "payload"
    /\ basket # Null /\ basket[1].total_items = 1

\* C18: every failing login, register, updateUser, addToBasket,
\* updateBasketItem, removeFromBasket or clearBasket (failed request, or call
\* while unauthenticated) returns {success: false, error: message}; the message
\* is the detail of the error response when there is one and a fixed generic
\* message otherwise.
C18_UniformFailure ==
    (\/ /\ ev.kind = "resolve" /\ ev.st = "err"
        /\ ev.op \in {"login", "register", "updateUser"} \cup MutatingOps
     \/ /\ ev.kind = "call" /\ ~ev.net
        /\ ev.op \in MutatingOps)
        => /\ ev.res = "failure"
           /\ ev.detail # "null" => ev.msg = ev.detail
           /\ ev.detail = "null" =>
                 ev.msg \in {"Login failed", "Registration failed", "Update failed",
                             "Failed to add to basket", "Failed to update item",
                             "Failed to remove item", "Failed to clear basket",
                             "Not authenticated"}

\* C18 case: the server rejects an addToBasket with a message.
C18_Witness ==
    /\ ev.kind = "resolve" /\ ev.op = "add" /\ ev.st = "err"
    /\ ev.detail = "detail" /\ ev.msg = "detail" /\ ev.res = "failure"

C20_NoUpdateBelowMinimum ==
    [][ /\ (ev'.kind = "call" /\ ev'.op = "update") => ev'.qty >= MinQuantity
        /\ \A i \in 1..Len(net') : net'[i].op = "update" => net'[i].qty >= MinQuantity
        /\ (ev'.kind = "view" /\ ev'.qty < MinQuantity) =>
              (net' = net /\ basket' = basket /\ srvBasket' = srvBasket /\ ~ev'.net)
      ]_vars

\* C20 case: the item shows 0.55, the minus button is enabled, and the new
\* quantity 0.05 is refused.
C20_Witness ==
    /\ ev.kind = "view" /\ ev.op = "handleQuantityChange" /\ ev.qty = 5
    /\ net = <<>> /\ QuantityOf(ev.item) = 55

\* Sum of the subtotals the page shows, one per group.
RECURSIVE C21_Subtotals(_, _)
C21_Subtotals(stores, groups) ==
    IF stores = {} THEN 0
    ELSE LET s == CHOOSE x \in stores : TRUE
         IN  calculateStoreTotal(groups[s]) + C21_Subtotals(stores \ {s}, groups)

\* The items of the groups laid out one group after the other.
RECURSIVE C21_Flatten(_, _)
C21_Flatten(stores, groups) ==
    IF stores = {} THEN <<>>
    ELSE LET s == CHOOSE x \in stores : TRUE
         IN  groups[s] \o C21_Flatten(stores \ {s}, groups)

\* C21: the groups the basket page shows partition the snapshot's items: each
\* item is in exactly one group, each group is the items of one store in
\* snapshot order, the subtotals add up to the sum of total_price over all
\* items, and grouping the grouped items again gives the same groups.
C21_GroupingIsPartition ==
    hasItems =>
        LET items == basket[1].items
            g == groupedItems
        IN  /\ DOMAIN g = {items[i].store_name : i \in 1..Len(items)}
            /\ \A i \in 1..Len(items) :
                  Cardinality({p \in {<<s, k>> : s \in DOMAIN g, k \in 1..Len(items)} :
                                  /\ p[2] <= Len(g[p[1]])
                                  /\ g[p[1]][p[2]] = items[i]}) = 1
            /\ \A s \in DOMAIN g :
                  g[s] = SelectSeq(items, LAMBDA it : it.store_name = s)
            /\ C21_Subtotals(DOMAIN g, g) = calculateStoreTotal(items)
            /\ groupItemsByStore(C21_Flatten(DOMAIN g, g)) = g

\* C21 case: three items, the two of store S1 with the item of S2 in between,
\* regrouped after a quantity change.
C21_Witness ==
    /\ ev.kind = "resolve" /\ ev.op = "update" /\ ev.st = "ok"
    /\ hasItems /\ Len(basket[1].items) = 3
    /\ basket[1].items[1].store_name = "S1" /\ basket[1].items[2].store_name = "S2"
    /\ basket[1].items[3].store_name = "S1"
    /\ Len(groupedItems["S1"]) = 2 /\ Len(groupedItems["S2"]) = 1
    /\ groupedItems["S1"][2] = basket[1].items[3]
    /\ calculateStoreTotal(groupedItems["S1"]) + calculateStoreTotal(groupedItems["S2"])
           = basket[1].total_cost

\* C22: for a product with at least one offer, the price shown as cheapest is
\* the price of one of its offers and is at most the price of every offer, the
\* store shown with it offers that price, and the HomePage tile (Math.min and
\* find) and the ProductCard (sort, first element) show the same price.
C22_CheapestIsMinimum ==
    view # Null =>
        LET prices == view[1].prices
            IsCheapest(shown) ==
                /\ \E i \in 1..Len(prices) : prices[i].price = shown.price
                /\ \A i \in 1..Len(prices) : shown.price <= prices[i].price
                /\ \E i \in 1..Len(prices) :
                      /\ prices[i].store_name = shown.store_name
                      /\ prices[i].price = shown.price
        IN  /\ view[1].dashboard # Null => IsCheapest(view[1].dashboard[1])
            /\ view[1].card # Null => IsCheapest(view[1].card[1])
            /\ (view[1].dashboard # Null /\ view[1].card # Null)
                  => view[1].dashboard[1].price = view[1].card[1].price

\* Both components have rendered a product whose cheapest price is offered by
\* two stores, neither of them first in product.prices.
C22_Witness ==
    /\ view # Null
    /\ view[1].dashboard # Null
    /\ view[1].card # Null
    /\ Len(view[1].prices) = 3
    /\ view[1].prices[1].price = 200
    /\ view[1].prices[2].price = 100
    /\ view[1].prices[3].price = 100
    /\ view[1].prices[2].store_name # view[1].prices[3].store_name
    /\ view[1].dashboard[1].store_name = view[1].prices[2].store_name
    /\ view[1].card[1].price = 100

\* C23: once logout() has run, the response of an initialize, login, register
\* or updateProfile request that was issued before the logout writes no
\* session state: it makes none of user, token, the persisted token and the
\* attached credential present, so isAuthenticated stays false until a login
\* or register invoked after the logout succeeds.
C23_LogoutIsFinal ==
    [][(ev'.kind = "resolve" /\ ev'.op \in SessionOps /\ ev'.old)
          => /\ user' # Null => user' = user
             /\ token' # NoToken => token' = token
             /\ localStorage' # NoToken => localStorage' = localStorage
             /\ authHeader' # NoToken => authHeader' = authHeader]_vars

\* C24: whenever the providers are mounted, their effects have run and no
\* AuthProvider request is in flight, the persisted token, the in-memory token
\* and the credential attached to outbound requests agree: all absent or all
\* the same token.
C24_TokensAgree ==
    (mounted /\ ~EffectsPending /\ \A i \in 1..Len(net) : net[i].op \notin SessionOps)
        => (localStorage = token /\ token = authHeader)

\* C25: whenever CartProvider holds a snapshot in an authenticated session,
\* with its effects run and no cart request in flight, the snapshot was
\* returned by the server for the user who is currently authenticated.
C25_SnapshotOfCurrentUser ==
    (mounted /\ ~EffectsPending /\ isAuthenticated /\ basket # Null /\ CartInFlight = {})
        => basketOwner = user[1].id

\* C26: CartProvider's loading flag is true exactly when a fetchBasket,
\* addToBasket, updateBasketItem, removeFromBasket or clearBasket request is
\* in flight.
C26_LoadingIffInFlight ==
    cartLoading <=> (\E i \in 1..Len(net) : net[i].op \in MutatingOps \cup {"fetch"})

\* C27: the continuation of a CartProvider operation whose request failed
\* leaves the snapshot exactly as it was: a failed addToBasket,
\* updateBasketItem, removeFromBasket or clearBasket does not change it and
\* a failed fetchBasket keeps the previous snapshot rather than clearing it.
C27_FailureKeepsSnapshot ==
    [][(ev'.kind = "resolve" /\ ev'.op \in CartOps /\ ev'.st = "err")
          => basket' = basket]_vars

\* A failed updateBasketItem that overlapped nothing has left a non-empty
\* snapshot in place, with the quantity it had before the call.
C27_Witness ==
    /\ ev.kind = "resolve" /\ ev.op = "update" /\ ev.st = "err" /\ ev.solo
    /\ CartInFlight = {}
    /\ basket # Null
    /\ Len(basket[1].items) = 1
    /\ basket[1].items[1].quantity # ev.qty

\* C28: AuthProvider's loading flag is true at startup and eventually becomes
\* false once checkAuth completes (no persisted token, validation succeeded,
\* validation failed); once false, nothing sets it to true again for as long
\* as the provider lives (only a page reload starts over).
C28_LoadingEnds ==
    /\ [][(~authLoading /\ authLoading') => ~mounted']_vars
    /\ (authLoading ~> ~authLoading)

\* The validation request of a startup with a persisted token has failed and
\* loading is over.
C28_Witness ==
    /\ ev.kind = "resolve" /\ ev.op = "me" /\ ev.st = "err"
    /\ mounted
    /\ ~authLoading

\* C29: after deleteShoppingList has succeeded for the list that was selected
\* when its response arrived, the selected list is absent or one of
\* shoppingLists, and is not the deleted list.
C29_SelectionSurvivesDelete ==
    (view # Null /\ view[1].last # Null
        /\ view[1].last[1].selected = Some(view[1].last[1].listId))
        => /\ view[1].selectedList # Some(view[1].last[1].listId)
           /\ \/ view[1].selectedList = Null
              \/ \E i \in 1..Len(view[1].shoppingLists) :
                    view[1].selectedList = Some(view[1].shoppingLists[i])

\* C30: a Load More request asks for the page after the pages already loaded,
\* and with no search in flight the accumulated products are the results of
\* pages 1..k, each page once and in order.
C30_PagesInOrder ==
    view # Null =>
        /\ (Len(view[1].searches) = 1 /\ ~view[1].searches[1].resetPage)
              => view[1].searches[1].currentPage = Len(view[1].products) + 1
        /\ view[1].searches = <<>>
              => \A i \in 1..Len(view[1].products) : view[1].products[i].page = i

====
